---- MODULE Spec2Model ----
(***************************************************************************)
(* lyrica: a non-blocking MIDI file player.                                *)
(*                                                                         *)
(* The model follows src/src/file.rs (MidiFile, the playback engine),      *)
(* src/src/player.rs (MidiPlayer, the adapter that owns the output         *)
(* connection and the wall clock), src/src/lib.rs (all_sound_off) and      *)
(* src/examples/play.rs (the demo loop).                                   *)
(*                                                                         *)
(* Representation choices                                                  *)
(*  - Option<T> is a sequence: <<>> is None, <<x>> is Some(x).             *)
(*  - Vec / VecDeque are sequences; the code's 0-based index i is the      *)
(*    sequence index i + 1.                                                *)
(*  - f64 times are exact integers of microseconds: the files of the model *)
(*    carry tempos that ticks_per_beat divides, and every delta is a whole  *)
(*    number of microseconds (player.rs:58 passes as_micros()).  A `seconds`*)
(*    argument is carried as the number seconds * 1_000_000.               *)
(*  - u32 values are integers; the values just below 2^32 that seek_to can *)
(*    produce are written as negative numbers (two's complement: -1 is     *)
(*    u32::MAX, -k is 2^32 - k).                                           *)
(*  - update() is split at its `while` loop (UpdateBegin, Tick,            *)
(*    UpdateReturn), because the loop need not terminate; every other      *)
(*    handler is one action.                                               *)
(***************************************************************************)
EXTENDS Integers, Sequences, FiniteSets, TLC

\* ------------------------------------------------------------------------
\* Bounds of the model
\* ------------------------------------------------------------------------

\* Longest time (microseconds) that may pass between two player calls.
MaxElapsed == 5

\* ticks_since_last_update counts exactly up to TslCap and then stays there:
\* the code only compares it with event deltas, all of which are smaller.
TslCap == 6

\* Largest seek target / loop point (microseconds) the callers pass.
MaxSeek == 4

\* Total time (microseconds) supplied to one engine in the granularity runs.
MaxTotal == 6

\* Number of update calls made on one engine in the granularity runs.
MaxCalls == 4

\* ------------------------------------------------------------------------
\* Program constants
\* ------------------------------------------------------------------------

ALL_SOUND_OFF_CC == 123

\* `for i in 0..16` in all_sound_off
NumChannels == 16

\* Status byte of a Controller message on channel 0 (0xB0), as write_std
\* encodes LiveEvent::Midi { channel, message: MidiMessage::Controller }.
ControllerStatus == 176

\* Status byte of a NoteOn message on channel 0 (0x90).
NoteOnStatus == 144

\* u32::MAX in the two's complement writing used for values near 2^32.
U32_MAX == -1

\* ------------------------------------------------------------------------
\* Option, u32 helpers
\* ------------------------------------------------------------------------

None == <<>>
Some(x) == <<x>>
is_some(o) == o # <<>>
unwrap(o) == o[1]

\* `let x = v; F(x)`: v is computed once and F uses the value.
Then(v, F(_)) == CHOOSE r \in {F(x) : x \in {v}} : TRUE

\* a > b on u32: a value written as a negative number is above every value
\* written as a natural number.
u32_gt(a, b) ==
    IF a < 0 THEN (b >= 0 \/ a > b)
    ELSE (b >= 0 /\ a > b)

\* a.saturating_sub(b) on u32, for b small.
saturating_sub(a, b) ==
    IF a < 0 THEN a - b
    ELSE IF a >= b THEN a - b ELSE 0

\* (x as u32) for the f64 x = seconds * 1_000_000.0 / microseconds_per_tick:
\* the cast saturates, and NaN (0.0 / 0.0) becomes 0.
f64_div_as_u32(micros, mpt) ==
    IF mpt = 0 THEN (IF micros > 0 THEN U32_MAX ELSE 0)
    ELSE IF micros <= 0 THEN 0
    ELSE micros \div mpt

\* ------------------------------------------------------------------------
\* Events and parsed files (the value Smf::parse returns)
\* ------------------------------------------------------------------------

\* OwnedTrackEventKind::ToSynth(bytes) at delta d
ToSynth(d, bytes) == [delta |-> d, kind |-> "ToSynth", bytes |-> bytes, tempo |-> 0]
\* OwnedTrackEventKind::Tempo(t) at delta d
Tempo(d, t) == [delta |-> d, kind |-> "Tempo", bytes |-> <<>>, tempo |-> t]
\* OwnedTrackEventKind::InessentialMeta at delta d
InessentialMeta(d) == [delta |-> d, kind |-> "InessentialMeta", bytes |-> <<>>, tempo |-> 0]

\* A NoteOn on channel 0 for key k, as write_std encodes it.
Note(d, k) == ToSynth(d, <<NoteOnStatus, k, 100>>)

Smf(format, tpb, tracks) == [format |-> format, ticks_per_beat |-> tpb, tracks |-> tracks]

\* The files the model loads.  Every ToSynth event of a file has its own bytes,
\* so a message in the sink identifies the event that sent it.
Files ==
    { Smf("Sequential", 1, << >>),
      Smf("SingleTrack", 1, << << >> >>),
      Smf("SingleTrack", 1, << <<Tempo(0, 2), Note(1, 60), Note(0, 61)>> >>),
      Smf("Sequential", 1, << << >>, <<Tempo(0, 2), Note(1, 70), Note(1, 71)>>, << >> >>),
      Smf("Sequential", 1, << <<Tempo(0, 2), Note(1, 60)>>, <<Note(1, 70)>> >>),
      Smf("Sequential", 1, << <<Note(1, 60), Note(2, 61)>> >>),
      Smf("Parallel", 1, << <<Tempo(0, 2)>>, <<Note(2, 70)>> >>),
      Smf("Parallel", 1, << <<Tempo(0, 1), Note(2, 60)>>, <<Note(0, 70), Note(2, 71)>> >>),
      Smf("Parallel", 1, << <<Note(1, 60)>>, <<InessentialMeta(0), Note(2, 70)>> >>),
      Smf("Parallel", 2, << <<Tempo(1, 4), Note(1, 60), Tempo(1, 2), Note(1, 61)>> >>),
      Smf("Parallel", 1, << <<Tempo(0, 1), Note(1, 60), Tempo(1, 0), Note(1, 61)>> >>),
      Smf("Parallel", 1, << <<Tempo(0, 1), Note(2, 60)>>, <<Note(2, 70)>> >>) }

\* ------------------------------------------------------------------------
\* lib.rs: all_sound_off
\* ------------------------------------------------------------------------

\* The bytes write_std produces for Controller { controller, value } on `channel`.
ControllerBytes(channel, controller, value) == <<ControllerStatus + channel, controller, value>>

\* One connection.send per channel, in the order of `for i in 0..16`.
all_sound_off == [i \in 1..NumChannels |-> ControllerBytes(i - 1, ALL_SOUND_OFF_CC, 0)]

\* ------------------------------------------------------------------------
\* file.rs: MidiFile
\* ------------------------------------------------------------------------

\* impl From<midly::Format> for MidiFileFormat
MidiFileFormat(midly_format) ==
    IF midly_format \in {"SingleTrack", "Sequential"}
    THEN [kind |-> "Sequential", current |-> 0]
    ELSE [kind |-> "Parallel", current |-> 0]

\* TrackProgress::default()
DefaultProgress == [ticks_since_last_update |-> 0, next_event |-> 0]

\* MidiFile::from_bytes, applied to the parsed file.
from_bytes(parsed_file) ==
    [ ticks_per_beat        |-> parsed_file.ticks_per_beat,
      microseconds_per_tick |-> 0,
      timer                 |-> 0,
      loop_point            |-> None,
      format                |-> MidiFileFormat(parsed_file.format),
      tracks                |-> parsed_file.tracks,
      progress              |-> [i \in 1..Len(parsed_file.tracks) |-> DefaultProgress],
      paused                |-> FALSE ]

\* Inputs of from_bytes that it does not turn into a MidiFile: bytes that
\* Smf::parse rejects, a header with Timing::Timecode, and a track that
\* holds a TrackEventKind::Escape event.
RejectedInputs == {"parse error", "timecode timing", "escape event"}

\* How MidiFile::from_bytes ends on such an input: the message of the panic
\* of `.unwrap()` on the Err of Smf::parse, or of the `todo!()` reached.
from_bytes_panic(input) ==
    IF input = "parse error"
    THEN "unwrap on an Err value"
    ELSE IF input = "timecode timing"
    THEN "timecode timing is unimplemented"
    ELSE "MIDI escape events are unimplemented"

\* self.tracks[track_id], self.progress[track_id] for an in-range track_id
TrackOf(mf, track_id) == mf.tracks[track_id + 1]
ProgressOf(mf, track_id) == mf.progress[track_id + 1]

\* set_paused with the broadcast sent on resume as well.
set_paused_always_broadcasts(mf, paused) ==
    [ mf  |-> [mf EXCEPT !.paused = paused],
      out |-> all_sound_off ]

\* MidiFile::set_paused: the new file and the messages sent.
set_paused(mf, paused) ==
    [ mf  |-> [mf EXCEPT !.paused = paused],
      out |-> IF paused THEN all_sound_off ELSE <<>> ]

\* MidiFile::set_loop_point
set_loop_point(mf, loop_point) == [mf EXCEPT !.loop_point = loop_point]

\* MidiFile::at_end_of_file
at_end_of_file(mf) ==
    IF mf.format.kind = "Sequential"
    THEN Len(mf.tracks) <= mf.format.current
    ELSE \A i \in 1..Len(mf.tracks) : mf.progress[i].next_event >= Len(mf.tracks[i])

\* is_finished without the test of the loop point.
is_finished_ignores_loop_point(mf) == at_end_of_file(mf)

\* MidiFile::is_finished
is_finished(mf) ==
    IF is_some(mf.loop_point) THEN FALSE ELSE at_end_of_file(mf)

\* The inner `for (i, event) in ...enumerate()` of seek_to, from index i on:
\* the index of the first event that passes the target (found), and
\* cumulative_delta as the loop leaves it.
RECURSIVE seek_scan(_, _, _, _)
seek_scan(track, i, cumulative_delta, loop_point_in_ticks) ==
    IF i >= Len(track)
    THEN [found |-> FALSE, index |-> i, cumulative_delta |-> cumulative_delta]
    ELSE IF u32_gt(cumulative_delta + track[i + 1].delta, loop_point_in_ticks)
    THEN [found |-> TRUE, index |-> i, cumulative_delta |-> cumulative_delta]
    ELSE seek_scan(track, i + 1, cumulative_delta + track[i + 1].delta, loop_point_in_ticks)

\* The body of `for track_id in 0..self.tracks.len()` of seek_to for one track.
seek_track(track, progress, loop_point_in_ticks) ==
    LET scan == seek_scan(track, 0, 0, loop_point_in_ticks)
    IN [ next_event |-> IF scan.found THEN scan.index ELSE progress.next_event,
         ticks_since_last_update |->
             saturating_sub(loop_point_in_ticks, scan.cumulative_delta) ]

\* seek_to without the call of all_sound_off.
seek_to_silent(mf, micros) ==
    LET loop_point_in_ticks == f64_div_as_u32(micros, mf.microseconds_per_tick)
    IN [ mf  |-> [mf EXCEPT !.progress =
                     [i \in 1..Len(mf.tracks) |->
                         seek_track(mf.tracks[i], mf.progress[i], loop_point_in_ticks)]],
         out |-> <<>> ]

\* MidiFile::seek_to: the new file and the messages sent.
seek_to(mf, micros) ==
    LET loop_point_in_ticks == f64_div_as_u32(micros, mf.microseconds_per_tick)
    IN [ mf  |-> [mf EXCEPT !.progress =
                     [i \in 1..Len(mf.tracks) |->
                         seek_track(mf.tracks[i], mf.progress[i], loop_point_in_ticks)]],
         out |-> all_sound_off ]

\* `progress.ticks_since_last_update += 1` when no overflow happens.
tsl_increment(v) ==
    IF v < 0 THEN v + 1
    ELSE IF v >= TslCap THEN TslCap ELSE v + 1

\* dispatch_event with the tempo taken as the tick length, not divided by
\* ticks_per_beat.
dispatch_event_tempo_undivided(mf, track_id, event) ==
    LET stepped == [mf EXCEPT !.progress[track_id + 1] =
                       [ticks_since_last_update |-> 0,
                        next_event |-> @.next_event + 1]]
    IN IF event.kind = "Tempo"
       THEN [stepped EXCEPT !.microseconds_per_tick = event.tempo]
       ELSE stepped

\* What dispatching one due event does to the file: the cursor moves on,
\* ticks_since_last_update restarts, and a Tempo event sets the tick length.
dispatch_event(mf, track_id, event) ==
    LET stepped == [mf EXCEPT !.progress[track_id + 1] =
                       [ticks_since_last_update |-> 0,
                        next_event |-> @.next_event + 1]]
    IN IF event.kind = "Tempo"
       THEN [stepped EXCEPT !.microseconds_per_tick = event.tempo \div mf.ticks_per_beat]
       ELSE stepped

\* What dispatching one due event sends through the connection.
dispatch_output(event) ==
    IF event.kind = "ToSynth" THEN <<event.bytes>> ELSE <<>>

\* The `while progress.next_event < track.len()` loop of update_track.
RECURSIVE dispatch_due(_, _, _)
dispatch_due(mf, track_id, out) ==
    LET track == TrackOf(mf, track_id)
        progress == ProgressOf(mf, track_id)
    IN IF ~(progress.next_event < Len(track)) THEN [mf |-> mf, out |-> out]
       ELSE IF u32_gt(track[progress.next_event + 1].delta, progress.ticks_since_last_update)
       THEN [mf |-> mf, out |-> out]
       ELSE Then([ mf  |-> dispatch_event(mf, track_id, track[progress.next_event + 1]),
                   out |-> out \o dispatch_output(track[progress.next_event + 1]) ],
                 LAMBDA next : dispatch_due(next.mf, track_id, next.out))

\* update_track starting a track over once its last event is dispatched.
update_track_rewinds(mf, track_id, overflow_checks) ==
    IF track_id >= Len(mf.tracks)
    THEN [mf |-> mf, out |-> <<>>, panic |-> "index out of bounds"]
    ELSE IF ProgressOf(mf, track_id).ticks_since_last_update = U32_MAX /\ overflow_checks
    THEN [mf |-> mf, out |-> <<>>, panic |-> "attempt to add with overflow"]
    ELSE Then([mf EXCEPT !.progress[track_id + 1].ticks_since_last_update =
                   tsl_increment(@)],
              LAMBDA ticked :
                 Then(dispatch_due(ticked, track_id, <<>>),
                      LAMBDA done :
                         [ mf |-> IF ProgressOf(done.mf, track_id).next_event
                                       >= Len(TrackOf(done.mf, track_id))
                                  THEN [done.mf EXCEPT !.progress[track_id + 1].next_event = 0]
                                  ELSE done.mf,
                           out |-> done.out, panic |-> "" ]))

\* update_track with the loop check made at its end, after this one track,
\* instead of in update after all tracks.
update_track_seeks_at_its_end(mf, track_id, overflow_checks) ==
    IF track_id >= Len(mf.tracks)
    THEN [mf |-> mf, out |-> <<>>, panic |-> "index out of bounds"]
    ELSE IF ProgressOf(mf, track_id).ticks_since_last_update = U32_MAX /\ overflow_checks
    THEN [mf |-> mf, out |-> <<>>, panic |-> "attempt to add with overflow"]
    ELSE Then([mf EXCEPT !.progress[track_id + 1].ticks_since_last_update =
                   tsl_increment(@)],
              LAMBDA ticked :
                 Then(dispatch_due(ticked, track_id, <<>>),
                      LAMBDA done :
                         IF at_end_of_file(done.mf) /\ is_some(done.mf.loop_point)
                         THEN Then(seek_to(done.mf, unwrap(done.mf.loop_point)),
                                   LAMBDA sought :
                                      [ mf |-> sought.mf, out |-> done.out \o sought.out,
                                        panic |-> "" ])
                         ELSE [mf |-> done.mf, out |-> done.out, panic |-> ""]))

\* MidiFile::update_track.  A track_id out of range panics at the index
\* expression; ticks_since_last_update at u32::MAX overflows: the build with
\* overflow checks panics, the build without wraps to 0.
update_track(mf, track_id, overflow_checks) ==
    IF track_id >= Len(mf.tracks)
    THEN [mf |-> mf, out |-> <<>>, panic |-> "index out of bounds"]
    ELSE IF ProgressOf(mf, track_id).ticks_since_last_update = U32_MAX /\ overflow_checks
    THEN [mf |-> mf, out |-> <<>>, panic |-> "attempt to add with overflow"]
    ELSE Then([mf EXCEPT !.progress[track_id + 1].ticks_since_last_update =
                   tsl_increment(@)],
              LAMBDA ticked :
                 Then(dispatch_due(ticked, track_id, <<>>),
                      LAMBDA done : [mf |-> done.mf, out |-> done.out, panic |-> ""]))

\* `for track_id in 0..self.tracks.len() { self.update_track(track_id, ..) }`
\* from track_id on (the Parallel arm of update).
RECURSIVE update_all_tracks(_, _, _, _)
update_all_tracks(mf, track_id, out, overflow_checks) ==
    IF track_id >= Len(mf.tracks) THEN [mf |-> mf, out |-> out, panic |-> ""]
    ELSE Then(update_track(mf, track_id, overflow_checks),
              LAMBDA r :
                 IF r.panic # ""
                 THEN [mf |-> r.mf, out |-> out \o r.out, panic |-> r.panic]
                 ELSE Then(out \o r.out,
                           LAMBDA sent :
                              update_all_tracks(r.mf, track_id + 1, sent, overflow_checks)))

\* update_sequential with the move to the next track taken after every tick.
update_sequential_always_advances(mf, overflow_checks) ==
    Then(update_track(mf, mf.format.current, overflow_checks),
         LAMBDA r :
            IF r.panic # "" THEN r
            ELSE [r EXCEPT !.mf.format.current = mf.format.current + 1])

\* The Sequential arm of update: advance tracks[current], then move to the
\* next track `if self.tracks[current].is_empty()`.
update_sequential(mf, overflow_checks) ==
    Then(update_track(mf, mf.format.current, overflow_checks),
         LAMBDA r :
            IF r.panic # "" THEN r
            ELSE IF Len(TrackOf(r.mf, mf.format.current)) = 0
            THEN [r EXCEPT !.mf.format.current = mf.format.current + 1]
            ELSE r)

\* `match self.format { .. }` of update
update_format(mf, overflow_checks) ==
    IF mf.format.kind = "Sequential"
    THEN update_sequential(mf, overflow_checks)
    ELSE update_all_tracks(mf, 0, <<>>, overflow_checks)

\* loop_seek rewinding to the start of the file instead of the loop point.
loop_seek_to_start(mf) ==
    IF at_end_of_file(mf) /\ is_some(mf.loop_point)
    THEN seek_to(mf, 0)
    ELSE [mf |-> mf, out |-> <<>>]

\* `if self.at_end_of_file() { if let Some(loop_point) = .. { self.seek_to(..) } }`
loop_seek(mf) ==
    IF at_end_of_file(mf) /\ is_some(mf.loop_point)
    THEN seek_to(mf, unwrap(mf.loop_point))
    ELSE [mf |-> mf, out |-> <<>>]

\* One iteration of `while self.timer > self.microseconds_per_tick` in update.
update_tick(mf, overflow_checks) ==
    Then(update_format(mf, overflow_checks),
         LAMBDA advanced :
            IF advanced.panic # "" THEN advanced
            ELSE Then(loop_seek(advanced.mf),
                      LAMBDA looped :
                         [ mf    |-> [looped.mf EXCEPT
                                         !.timer = @ - looped.mf.microseconds_per_tick],
                           out   |-> advanced.out \o looped.out,
                           panic |-> "" ]))

\* update's guard without the pause test.
update_returns_early_ignores_pause(mf) == is_finished(mf)

\* The guard of update: `if self.paused || self.is_finished() { return; }`
update_returns_early(mf) == mf.paused \/ is_finished(mf)

\* The timer set to the delta, the time left over from earlier calls dropped.
update_add_delta_overwrites(mf, delta_time) == [mf EXCEPT !.timer = delta_time]

\* `self.timer += delta_time`
update_add_delta(mf, delta_time) == [mf EXCEPT !.timer = @ + delta_time]

\* The loop condition with >= in place of >.
update_loop_condition_ge(mf) == mf.timer >= mf.microseconds_per_tick

\* The condition of the `while` loop of update.
update_loop_condition(mf) == mf.timer > mf.microseconds_per_tick

\* ------------------------------------------------------------------------
\* player.rs: MidiPlayer, and the callers' clock
\* ------------------------------------------------------------------------

VARIABLES
    maybe_midi_file,  \* MidiPlayer.maybe_midi_file: Option<MidiFile>
    connection,       \* the messages the latest call sent through MidiPlayer.connection
                      \* (during update: the messages of the latest tick)
    elapsed,          \* Instant::now() - MidiPlayer.last_update_time, in microseconds
    pc,               \* "idle", "updating" (inside MidiFile::update's loop) or "panicked"
    last_call,        \* the latest call of the player and its argument
    runs              \* two engines fed the same file directly (see GranSpec)

player == <<maybe_midi_file, connection, elapsed, pc, last_call>>
vars == <<maybe_midi_file, connection, elapsed, pc, last_call, runs>>

\* The loop points and seek targets the callers use (seconds * 1_000_000).
SeekTargets == 0..MaxSeek

LoopPoints == {None} \cup {Some(s) : s \in SeekTargets}

Call(name, arg) == [name |-> name, arg |-> arg]

\* MidiPlayer::new
Init ==
    /\ maybe_midi_file = None
    /\ connection = <<>>
    /\ elapsed = 0
    /\ pc = "idle"
    /\ last_call = Call("new", 0)
    /\ runs = <<>>

\* MidiPlayer::set_midi_file(MidiFile::from_bytes(..))
SetMidiFile(parsed_file) ==
    /\ pc = "idle"
    /\ connection' = all_sound_off
    /\ maybe_midi_file' = Some(from_bytes(parsed_file))
    /\ last_call' = Call("set_midi_file", 0)
    /\ UNCHANGED <<elapsed, pc, runs>>

\* MidiFile::from_bytes called on an input it rejects: the call panics
\* before a MidiFile exists, so set_midi_file is never reached.
LoadRejected(input) ==
    /\ pc = "idle"
    /\ pc' = IF from_bytes_panic(input) # "" THEN "panicked" ELSE "idle"
    /\ last_call' = Call("from_bytes", 0)
    /\ UNCHANGED <<maybe_midi_file, connection, elapsed, runs>>

\* MidiPlayer::set_paused
SetPaused(paused) ==
    /\ pc = "idle"
    /\ IF is_some(maybe_midi_file)
       THEN LET r == set_paused(unwrap(maybe_midi_file), paused)
            IN /\ maybe_midi_file' = Some(r.mf)
               /\ connection' = r.out
       ELSE /\ maybe_midi_file' = maybe_midi_file
            /\ connection' = <<>>
    /\ elapsed' = 0
    /\ last_call' = Call("set_paused", IF paused THEN 1 ELSE 0)
    /\ UNCHANGED <<pc, runs>>

\* MidiPlayer::is_finished
player_is_finished ==
    IF is_some(maybe_midi_file) THEN is_finished(unwrap(maybe_midi_file)) ELSE TRUE

\* MidiPlayer::set_loop_point
SetLoopPoint(loop_point) ==
    /\ pc = "idle"
    /\ maybe_midi_file' =
          IF is_some(maybe_midi_file)
          THEN Some(set_loop_point(unwrap(maybe_midi_file), loop_point))
          ELSE maybe_midi_file
    /\ connection' = <<>>
    /\ last_call' = Call("set_loop_point", IF is_some(loop_point) THEN unwrap(loop_point) ELSE -1)
    /\ UNCHANGED <<elapsed, pc, runs>>

\* MidiPlayer::seek_to with the seek's broadcast sent whether or not a file
\* is loaded.
SeekTo_broadcasts_without_file(micros) ==
    /\ pc = "idle"
    /\ IF is_some(maybe_midi_file)
       THEN LET r == seek_to(unwrap(maybe_midi_file), micros)
            IN /\ maybe_midi_file' = Some(r.mf)
               /\ connection' = r.out
       ELSE /\ maybe_midi_file' = maybe_midi_file
            /\ connection' = all_sound_off
    /\ last_call' = Call("seek_to", micros)
    /\ UNCHANGED <<elapsed, pc, runs>>

\* MidiPlayer::seek_to
SeekTo(micros) ==
    /\ pc = "idle"
    /\ IF is_some(maybe_midi_file)
       THEN LET r == seek_to(unwrap(maybe_midi_file), micros)
            IN /\ maybe_midi_file' = Some(r.mf)
               /\ connection' = r.out
       ELSE /\ maybe_midi_file' = maybe_midi_file
            /\ connection' = <<>>
    /\ last_call' = Call("seek_to", micros)
    /\ UNCHANGED <<elapsed, pc, runs>>

\* Time passes between two calls of the player (thread::sleep in the demo).
Sleep(d) ==
    /\ pc = "idle"
    /\ elapsed + d <= MaxElapsed
    /\ elapsed' = elapsed + d
    /\ UNCHANGED <<maybe_midi_file, connection, pc, last_call, runs>>

\* MidiPlayer::update up to the `while` loop of MidiFile::update:
\* delta_time is the time since last_update_time, which becomes `now`.
UpdateBegin ==
    /\ pc = "idle"
    /\ LET delta_time == elapsed
       IN /\ IF is_some(maybe_midi_file) /\ ~update_returns_early(unwrap(maybe_midi_file))
             THEN /\ maybe_midi_file' =
                        Some(update_add_delta(unwrap(maybe_midi_file), delta_time))
                  /\ pc' = "updating"
             ELSE UNCHANGED <<maybe_midi_file, pc>>
          /\ last_call' = Call("update", delta_time)
    /\ connection' = <<>>
    /\ elapsed' = 0
    /\ UNCHANGED runs

\* One iteration of the `while` loop of MidiFile::update.
Tick ==
    /\ pc = "updating"
    /\ update_loop_condition(unwrap(maybe_midi_file))
    /\ \E overflow_checks \in BOOLEAN :
          \E r \in {update_tick(unwrap(maybe_midi_file), overflow_checks)} :
             /\ maybe_midi_file' = Some(r.mf)
             /\ connection' = r.out
             /\ pc' = IF r.panic # "" THEN "panicked" ELSE "updating"
    /\ UNCHANGED <<elapsed, last_call, runs>>

\* The `while` loop of MidiFile::update ends and update returns.
UpdateReturn ==
    /\ pc = "updating"
    /\ ~update_loop_condition(unwrap(maybe_midi_file))
    /\ pc' = "idle"
    /\ connection' = <<>>
    /\ UNCHANGED <<maybe_midi_file, elapsed, last_call, runs>>

Next ==
    \/ \E parsed_file \in Files : SetMidiFile(parsed_file)
    \/ \E input \in RejectedInputs : LoadRejected(input)
    \/ \E paused \in BOOLEAN : SetPaused(paused)
    \/ \E loop_point \in LoopPoints : SetLoopPoint(loop_point)
    \/ \E micros \in SeekTargets : SeekTo(micros)
    \/ \E d \in 1..MaxElapsed : Sleep(d)
    \/ UpdateBegin
    \/ Tick
    \/ UpdateReturn

Spec == Init /\ [][Next]_vars

\* ------------------------------------------------------------------------
\* examples/play.rs: the demo loop
\* ------------------------------------------------------------------------

\* `player.set_midi_file(MidiFile::from_bytes(&file))`, once, before the loop.
DemoLoad(parsed_file) ==
    /\ maybe_midi_file = None
    /\ SetMidiFile(parsed_file)

\* `thread::sleep(..)` and whatever else delays the next iteration.
DemoSleep(d) ==
    /\ is_some(maybe_midi_file)
    /\ Sleep(d)

\* `while !player.is_finished() { player.update(); .. }`, an iteration that
\* starts after some time has passed.
DemoUpdate ==
    /\ is_some(maybe_midi_file)
    /\ ~is_finished(unwrap(maybe_midi_file))
    /\ elapsed >= 1
    /\ UpdateBegin

DemoNext ==
    \/ \E parsed_file \in Files : DemoLoad(parsed_file)
    \/ \E d \in 1..MaxElapsed : DemoSleep(d)
    \/ DemoUpdate
    \/ Tick
    \/ UpdateReturn

\* The demo runs on: it loads its file, its loop iterates while the file is
\* not finished, and update's loop takes its next iteration or returns.
DemoSpec == Init /\ [][DemoNext]_vars /\ WF_vars(DemoNext)

\* ------------------------------------------------------------------------
\* The demo loop on a file that is set to loop
\* ------------------------------------------------------------------------

\* `player.set_loop_point(Some(..))` right after the file is loaded.
LoopSetLoopPoint(micros) ==
    /\ is_some(maybe_midi_file)
    /\ last_call.name = "set_midi_file"
    /\ SetLoopPoint(Some(micros))

\* An iteration of the demo loop once the loop point is set.
LoopUpdate ==
    /\ last_call.name # "set_midi_file"
    /\ DemoUpdate

LoopNext ==
    \/ \E parsed_file \in Files : DemoLoad(parsed_file)
    \/ \E micros \in SeekTargets : LoopSetLoopPoint(micros)
    \/ \E d \in 1..MaxElapsed : DemoSleep(d)
    \/ LoopUpdate
    \/ Tick
    \/ UpdateReturn

\* The caller keeps going: the file is loaded, the loop point set, and the
\* loop iterates, each update taking its next tick or returning.
LoopSpec == Init /\ [][LoopNext]_vars /\ WF_vars(LoopNext)

\* ------------------------------------------------------------------------
\* Two engines fed the same Parallel file through MidiFile::update directly,
\* each with its own sequence of deltas
\* ------------------------------------------------------------------------

\* An engine, where it is in update, every message it has sent, the total of
\* the deltas it was given and the number of update calls.
FreshRun(parsed_file) ==
    [ mf |-> from_bytes(parsed_file), pc |-> "idle", log |-> <<>>, total |-> 0, calls |-> 0 ]

GranInit ==
    /\ maybe_midi_file = None
    /\ connection = <<>>
    /\ elapsed = 0
    /\ pc = "idle"
    /\ last_call = Call("new", 0)
    /\ \E parsed_file \in Files :
          /\ parsed_file.format = "Parallel"
          /\ runs = <<FreshRun(parsed_file), FreshRun(parsed_file)>>

\* MidiFile::update(delta_time) up to its loop, on engine `side`.
GranUpdateBegin(side, delta_time) ==
    /\ runs[side].pc = "idle"
    /\ runs[side].total + delta_time <= MaxTotal
    /\ runs[side].calls < MaxCalls
    /\ runs' = [runs EXCEPT ![side] =
          IF update_returns_early(@.mf)
          THEN [@ EXCEPT !.total = @ + delta_time, !.calls = @ + 1]
          ELSE [@ EXCEPT !.mf = update_add_delta(@, delta_time),
                         !.pc = "updating",
                         !.total = @ + delta_time,
                         !.calls = @ + 1]]
    /\ UNCHANGED player

\* One iteration of update's loop on engine `side`.
GranTick(side) ==
    /\ runs[side].pc = "updating"
    /\ update_loop_condition(runs[side].mf)
    /\ \E overflow_checks \in BOOLEAN :
          \E r \in {update_tick(runs[side].mf, overflow_checks)} :
             runs' = [runs EXCEPT ![side] =
                 [@ EXCEPT !.mf = r.mf,
                           !.log = @ \o r.out,
                           !.pc = IF r.panic # "" THEN "panicked" ELSE "updating"]]
    /\ UNCHANGED player

\* update returns on engine `side`.
GranUpdateReturn(side) ==
    /\ runs[side].pc = "updating"
    /\ ~update_loop_condition(runs[side].mf)
    /\ runs' = [runs EXCEPT ![side].pc = "idle"]
    /\ UNCHANGED player

GranNext ==
    \/ \E side \in 1..2 : \E delta_time \in 0..MaxTotal : GranUpdateBegin(side, delta_time)
    \/ \E side \in 1..2 : GranTick(side)
    \/ \E side \in 1..2 : GranUpdateReturn(side)

GranSpec == GranInit /\ [][GranNext]_vars

\* ------------------------------------------------------------------------
\* Vocabulary of the properties
\* ------------------------------------------------------------------------

Loaded == is_some(maybe_midi_file)
File == unwrap(maybe_midi_file)
FileNext == unwrap(maybe_midi_file')

IsSequential(mf) == mf.format.kind = "Sequential"

\* A step that is one iteration of update's loop and did not panic.
TickStep == pc = "updating" /\ pc' = "updating"

\* The messages of a sequence that are not part of an all-sound-off broadcast.
IsAllSoundOffMessage(m) == \E ch \in 0..15 : m = <<176 + ch, 123, 0>>
EventMessages(out) == SelectSeq(out, LAMBDA m : ~IsAllSoundOffMessage(m))

\* Track i (0-based) has no undispatched event.
Drained(mf, i) == ProgressOf(mf, i).next_event >= Len(TrackOf(mf, i))

\* ------------------------------------------------------------------------
\* C1
\* ------------------------------------------------------------------------

\* C1: in Sequential layout, a tick that leaves the current track's
\* next_event equal to the track's length moves current to current + 1 in
\* that same tick, for empty and for non-empty tracks.
C1_CurrentAdvancesAtTrackEnd ==
    [][ ( /\ TickStep
          /\ IsSequential(File)
          /\ File.format.current < Len(File.tracks)
          /\ ProgressOf(FileNext, File.format.current).next_event
                 = Len(TrackOf(File, File.format.current)) )
        => FileNext.format.current = File.format.current + 1 ]_vars

\* ------------------------------------------------------------------------
\* C2
\* ------------------------------------------------------------------------

\* The first event of the file is a Tempo event with a positive value.
FirstEventIsPositiveTempo(mf) ==
    /\ Len(mf.tracks) >= 1
    /\ Len(mf.tracks[1]) >= 1
    /\ mf.tracks[1][1].kind = "Tempo"
    /\ mf.tracks[1][1].tempo > 0

\* Every Tempo event of the file has a positive value.
EveryTempoIsPositive(mf) ==
    \A j \in 1..Len(mf.tracks) : \A e \in 1..Len(mf.tracks[j]) :
        mf.tracks[j][e].kind = "Tempo" => mf.tracks[j][e].tempo > 0

\* C2: a loaded file with no loop point, not paused, whose first event is a
\* positive Tempo (and whose later Tempo events are positive too), is
\* eventually finished under repeated updates with positive deltas, in both
\* layouts: the demo loop exits.
C2_PlaybackFinishes ==
    (Loaded /\ FirstEventIsPositiveTempo(File) /\ EveryTempoIsPositive(File))
        ~> (Loaded /\ pc = "idle" /\ is_finished(File))

\* ------------------------------------------------------------------------
\* C3
\* ------------------------------------------------------------------------

\* C3: in Sequential layout every iteration of update's loop runs with
\* current < number of tracks: no tick indexes a track with the sentinel.
C3_TickIndexInRange ==
    ( /\ pc = "updating"
      /\ IsSequential(File)
      /\ update_loop_condition(File) )
    => File.format.current < Len(File.tracks)

\* ------------------------------------------------------------------------
\* C4
\* ------------------------------------------------------------------------

\* C4: every update call comes to the end of its loop after finitely many
\* ticks: whenever the engine is inside update's loop, it eventually is not.
\* (Leaving the loop by a panic is not held against the claim here.)
C4_UpdateLoopEnds == (pc = "updating") ~> (pc # "updating")

\* ------------------------------------------------------------------------
\* C5
\* ------------------------------------------------------------------------

\* The events <<track, index>> (0-based) of the file whose bytes are m.
Owners(mf, m) ==
    { te \in UNION { {<<j, e>> : e \in 0..(Len(TrackOf(mf, j)) - 1)}
                       : j \in 0..(Len(mf.tracks) - 1) } :
        /\ TrackOf(mf, te[1])[te[2] + 1].kind = "ToSynth"
        /\ TrackOf(mf, te[1])[te[2] + 1].bytes = m }

\* C5: in Sequential layout an event of track j is sent only when no track
\* i < j has an undispatched event, and the events a tick sends leave in
\* track order: each is at or after the cursor the tick started from, and
\* later messages belong to later events.
C5_SequentialTrackOrder ==
    [][ (TickStep /\ IsSequential(File)) =>
          LET out == EventMessages(connection')
          IN \A k \in 1..Len(out) : \A te \in Owners(File, out[k]) :
                /\ \A i \in 0..(te[1] - 1) : Drained(File, i)
                /\ te[2] >= ProgressOf(File, te[1]).next_event
                /\ \A k2 \in (k + 1)..Len(out) : \A te2 \in Owners(File, out[k2]) :
                      te2[1] > te[1] \/ (te2[1] = te[1] /\ te2[2] > te[2]) ]_vars

\* A later track of a Sequential file is playing: track 1 has just sent its
\* second note, after its first, while track 0 has nothing left.
C5_Witness ==
    /\ Loaded /\ pc = "updating"
    /\ IsSequential(File)
    /\ Len(File.tracks) >= 2
    /\ File.format.current = 1
    /\ Drained(File, 0)
    /\ ProgressOf(File, 1).next_event = 3
    /\ connection = <<Note(1, 71).bytes>>

\* ------------------------------------------------------------------------
\* C6
\* ------------------------------------------------------------------------

\* C6: in Parallel layout, two sequences of non-negative deltas with the
\* same total, given to the same freshly loaded file, send the same sequence
\* of messages.
C6_GranularityIndependence ==
    ( /\ runs # <<>>
      /\ runs[1].pc = "idle" /\ runs[2].pc = "idle"
      /\ runs[1].total = runs[2].total )
    => runs[1].log = runs[2].log

\* One update of 6 microseconds against at least three smaller updates of the
\* same total, both having sent the same two or more messages.
C6_Witness ==
    /\ runs # <<>>
    /\ runs[1].pc = "idle" /\ runs[2].pc = "idle"
    /\ runs[1].calls = 1 /\ runs[2].calls >= 3
    /\ runs[1].total = 6 /\ runs[2].total = 6
    /\ Len(runs[1].log) >= 2
    /\ runs[1].log = runs[2].log

\* ------------------------------------------------------------------------
\* C7
\* ------------------------------------------------------------------------

\* Every Tempo event of the file: <<track, index, value>>.
TempoEvents(mf) ==
    { <<j, e, mf.tracks[j][e].tempo>> :
        <<j, e>> \in { je \in (1..Len(mf.tracks)) \X (1..4) :
                         /\ je[2] <= Len(mf.tracks[je[1]])
                         /\ mf.tracks[je[1]][je[2]].kind = "Tempo" } }

\* The cumulative tick offset of event e (1-based) within a track.
RECURSIVE Offset(_, _)
Offset(track, e) == IF e = 0 THEN 0 ELSE track[e].delta + Offset(track, e - 1)

\* C7: in Parallel layout under one constant tempo m set by a Tempo event
\* at offset 0, an event at cumulative tick offset T has been dispatched once
\* update has returned with a total of at least T * m microseconds supplied.
C7_DispatchedByOffsetTime ==
    \A side \in DOMAIN runs :
       LET r == runs[side]
       IN \A t \in TempoEvents(r.mf) :
             ( /\ TempoEvents(r.mf) = {t}
               /\ t[2] = 1 /\ r.mf.tracks[t[1]][1].delta = 0 /\ t[3] > 0
               /\ r.pc = "idle" /\ r.total > 0 )
             => \A j \in 1..Len(r.mf.tracks) : \A e \in 1..Len(r.mf.tracks[j]) :
                   r.total >= Offset(r.mf.tracks[j], e) * t[3]
                      => r.mf.progress[j].next_event >= e

\* ------------------------------------------------------------------------
\* C8
\* ------------------------------------------------------------------------

\* C8: an update call on a paused engine changes nothing of the engine
\* (progress, timer, microseconds_per_tick, format, loop point), sends
\* nothing, and returns at once.
C8_PausedUpdateIsNoOp ==
    [][ (Loaded /\ File.paused /\ UpdateBegin) =>
          /\ maybe_midi_file' = maybe_midi_file
          /\ connection' = <<>>
          /\ pc' = "idle" ]_vars

\* update was called with a positive delta on a paused engine in mid-playback.
C8_Witness ==
    /\ Loaded /\ pc = "idle"
    /\ File.paused
    /\ last_call.name = "update" /\ last_call.arg > 0
    /\ \E i \in 1..Len(File.tracks) :
          /\ File.progress[i].next_event > 0
          /\ File.progress[i].next_event < Len(File.tracks[i])
    /\ connection = <<>>

\* ------------------------------------------------------------------------
\* C9
\* ------------------------------------------------------------------------

\* C9: set_paused(true) on a loaded file sends exactly 16 messages,
\* Controller 123 value 0 on channels 0, 1, .., 15 in that order;
\* set_paused(false) sends nothing.
C9_PauseBroadcast ==
    [][ \A paused \in BOOLEAN :
          (Loaded /\ SetPaused(paused)) =>
             IF paused
             THEN /\ Len(connection') = 16
                  /\ \A ch \in 0..15 : connection'[ch + 1] = <<176 + ch, 123, 0>>
             ELSE connection' = <<>> ]_vars

\* set_paused(true) has just been called on a loaded file.
C9_Witness ==
    /\ Loaded
    /\ last_call = Call("set_paused", 1)
    /\ File.paused
    /\ Len(connection) = 16
    /\ connection[1] = <<176, 123, 0>>
    /\ connection[16] = <<191, 123, 0>>

\* ------------------------------------------------------------------------
\* C10
\* ------------------------------------------------------------------------

\* C10: update(0) changes nothing of the engine and sends nothing: the call
\* adds 0 to the timer and its loop takes no iteration, because the timer
\* does not exceed microseconds_per_tick between calls.
C10_ZeroDeltaUpdateIsNoOp ==
    [][ (Loaded /\ elapsed = 0 /\ UpdateBegin) =>
          /\ maybe_midi_file' = maybe_midi_file
          /\ connection' = <<>>
          /\ ~update_loop_condition(FileNext) ]_vars

\* update(0) has returned on an engine that is playing (neither paused nor
\* finished), in mid-playback, after a seek.
C10_Witness ==
    /\ Loaded /\ pc = "idle"
    /\ last_call = Call("update", 0)
    /\ ~update_returns_early(File)
    /\ File.microseconds_per_tick > 0
    /\ File.timer = File.microseconds_per_tick
    /\ \E i \in 1..Len(File.tracks) :
          /\ File.progress[i].next_event > 0
          /\ File.progress[i].next_event < Len(File.tracks[i])

\* ------------------------------------------------------------------------
\* C11
\* ------------------------------------------------------------------------

\* The smallest index i (0-based) of the track whose cumulative delta
\* through event i exceeds target, or the track length when no event does.
FirstPast(track, target) ==
    LET past == { i \in 0..(Len(track) - 1) : Offset(track, i + 1) > target }
    IN IF past = {} THEN Len(track)
       ELSE CHOOSE i \in past : \A k \in past : i <= k

\* C11: seek_to(seconds) on a file with a tick length set puts every
\* track's next_event on the first event whose cumulative delta exceeds
\* targetTicks = seconds * 1,000,000 / microseconds_per_tick, on the track
\* length when no event exceeds it, whatever next_event was before; and
\* ticks_since_last_update is targetTicks minus the cumulative delta of the
\* events before that index.
C11_SeekLandsOnFirstEventPastTarget ==
    [][ \A micros \in SeekTargets :
          (Loaded /\ File.microseconds_per_tick > 0 /\ SeekTo(micros)) =>
             LET target == micros \div File.microseconds_per_tick
             IN \A i \in 1..Len(File.tracks) :
                   LET index == FirstPast(File.tracks[i], target)
                   IN /\ FileNext.progress[i].next_event = index
                      /\ FileNext.progress[i].ticks_since_last_update
                            = target - Offset(File.tracks[i], index) ]_vars

\* ------------------------------------------------------------------------
\* C12
\* ------------------------------------------------------------------------

\* The file as the advance of one tick leaves it, before the loop check.
Advanced(mf) == update_format(mf, FALSE).mf

\* The last 16 messages of a sequence.
Last16(out) == SubSeq(out, Len(out) - 15, Len(out))

\* The quotient micros / mpt of two f64 values lies beyond every tick offset
\* when mpt is 0.0 and micros is positive (it is infinite).
PastTarget(track, micros, mpt) ==
    IF mpt = 0 THEN Len(track) ELSE FirstPast(track, micros \div mpt)

OneTempoAtStart(mf) ==
    /\ FirstEventIsPositiveTempo(mf)
    /\ mf.tracks[1][1].delta = 0
    /\ TempoEvents(mf) = {<<1, 1, mf.tracks[1][1].tempo>>}

\* The loop point of the file in ticks of its one tempo.
LoopTick(mf) == unwrap(mf.loop_point) \div (mf.tracks[1][1].tempo \div mf.ticks_per_beat)

\* Message m belongs to an event of the file that lies after the loop point.
AfterLoopPoint(mf, m) ==
    \E te \in Owners(mf, m) : Offset(TrackOf(mf, te[1]), te[2] + 1) > LoopTick(mf)

\* The messages of the note events of the files.
NoteMessages == { Note(0, k).bytes : k \in {60, 61, 70, 71} }

\* C13: a file (Sequential or Parallel) with a Tempo event at its start and
\* a loop point before the loop's end, updated again and again with positive
\* deltas, sends every event that lies after the loop point infinitely often:
\* whenever such a file is loaded, each such event is sent again later.
C13_LoopRepeatsForever ==
    \A m \in NoteMessages :
       ( /\ Loaded
         /\ is_some(File.loop_point)
         /\ OneTempoAtStart(File)
         /\ AfterLoopPoint(File, m) )
       ~> ( \E k \in 1..Len(connection) : connection[k] = m )

\* C13 for the Parallel layout alone.
C13_ParallelLoopRepeats ==
    \A m \in NoteMessages :
       ( /\ Loaded
         /\ ~IsSequential(File)
         /\ is_some(File.loop_point)
         /\ OneTempoAtStart(File)
         /\ AfterLoopPoint(File, m) )
       ~> ( \E k \in 1..Len(connection) : connection[k] = m )

\* ------------------------------------------------------------------------
\* C14
\* ------------------------------------------------------------------------

\* The format scheduler has nothing left to play.
SchedulerFinished(mf) ==
    IF IsSequential(mf)
    THEN mf.format.current >= Len(mf.tracks)
    ELSE \A i \in 1..Len(mf.tracks) : mf.progress[i].next_event >= Len(mf.tracks[i])

\* C14: in every reachable state is_finished() is true exactly when no loop
\* point is set and the scheduler is finished (Sequential: current >= track
\* count; Parallel: every next_event >= its track's length); it is false
\* while a loop point is set, and a Sequential file without tracks is
\* finished as soon as it is loaded.
C14_FinishedIffNoLoopAndSchedulerDone ==
    Loaded =>
       /\ player_is_finished <=> (File.loop_point = None /\ SchedulerFinished(File))
       /\ is_some(File.loop_point) => ~player_is_finished
       /\ (last_call.name = "set_midi_file" /\ IsSequential(File) /\ File.tracks = <<>>)
             => player_is_finished

\* A Sequential file without tracks has just been loaded and is finished.
C14_Witness ==
    /\ Loaded /\ pc = "idle"
    /\ last_call.name = "set_midi_file"
    /\ IsSequential(File)
    /\ File.tracks = <<>>
    /\ player_is_finished

\* ------------------------------------------------------------------------
\* C15
\* ------------------------------------------------------------------------

\* C15: set_midi_file resets the adapter's last update time to now: right
\* after the swap no time has elapsed since last_update_time, so the delta
\* the next update passes to the engine is the time since the swap.
C15_SwapResetsLastUpdateTime ==
    [][ \A parsed_file \in Files :
          SetMidiFile(parsed_file) => elapsed' = 0 ]_vars

\* ------------------------------------------------------------------------
\* C16
\* ------------------------------------------------------------------------

\* C16: when set_midi_file replaces the file of a paused player, the new
\* file is paused too (so that update sends none of its events until
\* set_paused(false)).
C16_PausedPreservedAcrossSwap ==
    [][ \A parsed_file \in Files :
          (Loaded /\ File.paused /\ SetMidiFile(parsed_file)) => FileNext.paused ]_vars

\* ------------------------------------------------------------------------
\* C17
\* ------------------------------------------------------------------------

\* The all-sound-off messages among the messages of a call or tick.
Broadcast(out) == SelectSeq(out, IsAllSoundOffMessage)

\* The tick about to run reaches the end of a file that has a loop point.
LoopSeekDue(mf) == is_some(mf.loop_point) /\ at_end_of_file(Advanced(mf))

\* The step is a call of the player's method `name` (every action that
\* models a call records the method in last_call).
Calls(name) == pc = "idle" /\ last_call'.name = name

\* C17: the 16-message broadcast is sent, once, by set_paused(true) on a
\* loaded file, by set_midi_file (as the only messages of the call, before
\* any event of the new file), by seek_to on a loaded file and by a tick
\* that triggers the loop seek; set_paused(false), set_loop_point, the other
\* parts of update, and set_paused / seek_to without a file send none of it.
C17_BroadcastExactlyAtTransitions ==
    [][ /\ (Calls("set_midi_file") /\ \E parsed_file \in Files : SetMidiFile(parsed_file))
              => connection' = all_sound_off
        /\ (Calls("set_paused") /\ Loaded /\ SetPaused(TRUE))
              => Broadcast(connection') = all_sound_off
        /\ (Calls("seek_to") /\ Loaded /\ \E micros \in SeekTargets : SeekTo(micros))
              => Broadcast(connection') = all_sound_off
        /\ (TickStep /\ LoopSeekDue(File)) => Broadcast(connection') = all_sound_off
        /\ ( \/ (Calls("set_paused") /\ SetPaused(FALSE))
             \/ (Calls("set_loop_point") /\ \E loop_point \in LoopPoints : SetLoopPoint(loop_point))
             \/ (Calls("set_paused") /\ ~Loaded /\ SetPaused(TRUE))
             \/ (Calls("seek_to") /\ ~Loaded /\ \E micros \in SeekTargets : SeekTo(micros))
             \/ (Calls("update") /\ UpdateBegin)
             \/ (TickStep /\ ~LoopSeekDue(File))
             \/ (pc = "updating" /\ UpdateReturn) )
              => Broadcast(connection') = <<>> ]_vars

\* seek_to has just been called on a file in mid-playback and has sent the
\* broadcast.
C17_Witness ==
    /\ Loaded /\ pc = "idle"
    /\ last_call.name = "seek_to"
    /\ connection = all_sound_off
    /\ File.microseconds_per_tick > 0
    /\ \E i \in 1..Len(File.tracks) :
          /\ File.progress[i].next_event > 0
          /\ File.progress[i].next_event < Len(File.tracks[i])

\* ------------------------------------------------------------------------
\* C18
\* ------------------------------------------------------------------------

\* C18: every track's next_event lies between 0 and the track's length in
\* every reachable state, and no step of an update call that involves no
\* seek (its entry, a tick without loop seek, its return) decreases it.
C18_NextEventBoundedAndMonotonic ==
    /\ [](Loaded => \A i \in 1..Len(File.tracks) :
                       /\ 0 <= File.progress[i].next_event
                       /\ File.progress[i].next_event <= Len(File.tracks[i]))
    /\ [][ ( /\ Loaded
             /\ \/ (Calls("update") /\ UpdateBegin)
                \/ (TickStep /\ ~LoopSeekDue(File))
                \/ (pc = "updating" /\ UpdateReturn) )
           => \A i \in 1..Len(File.tracks) :
                 FileNext.progress[i].next_event >= File.progress[i].next_event ]_vars

\* A tick without seek has moved a cursor forward: it has just sent the last
\* event of a track of a file that does not loop.
C18_Witness ==
    /\ Loaded /\ pc = "updating"
    /\ File.loop_point = None
    /\ Len(connection) >= 1
    /\ \E i \in 1..Len(File.tracks) :
          /\ Len(File.tracks[i]) >= 2
          /\ File.progress[i].next_event = Len(File.tracks[i])
          /\ File.tracks[i][Len(File.tracks[i])].kind = "ToSynth"
          /\ connection[Len(connection)] = File.tracks[i][Len(File.tracks[i])].bytes

\* ------------------------------------------------------------------------
\* C19
\* ------------------------------------------------------------------------

\* C19: loading bytes that fail to parse, or a file with timecode timing or
\* an escape event, returns to the caller (with an error result): the
\* process is not aborted, and no playback state is constructed.
C19_LoadFailureIsRecoverable ==
    [][ \A input \in RejectedInputs :
          (Calls("from_bytes") /\ LoadRejected(input))
             => /\ pc' = "idle"
                /\ maybe_midi_file' = maybe_midi_file ]_vars

\* ------------------------------------------------------------------------
\* C20
\* ------------------------------------------------------------------------

\* C20: while no file is loaded, set_paused, seek_to, set_loop_point and
\* update send nothing and leave the player without a file, and
\* is_finished() is true; a loop point set without a file is not applied to
\* the file loaded afterwards.
C20_NoFileCallsAreNoOps ==
    /\ [](~Loaded => player_is_finished)
    /\ [][ ( /\ ~Loaded
             /\ \/ (Calls("set_paused") /\ \E paused \in BOOLEAN : SetPaused(paused))
                \/ (Calls("seek_to") /\ \E micros \in SeekTargets : SeekTo(micros))
                \/ (Calls("set_loop_point") /\ \E loop_point \in LoopPoints : SetLoopPoint(loop_point))
                \/ (Calls("update") /\ UpdateBegin) )
           => /\ connection' = <<>>
              /\ maybe_midi_file' = None
              /\ pc' = "idle" ]_vars
    /\ [][ ( /\ ~Loaded
             /\ Calls("set_midi_file")
             /\ \E parsed_file \in Files : SetMidiFile(parsed_file) )
           => FileNext.loop_point = None ]_vars

\* seek_to has just been called, after time has passed, on a player that has
\* no file: nothing was sent and the player is finished.
C20_Witness ==
    /\ ~Loaded /\ pc = "idle"
    /\ last_call.name = "seek_to" /\ last_call.arg > 0
    /\ elapsed > 0
    /\ connection = <<>>
    /\ player_is_finished

\* ------------------------------------------------------------------------
\* C21
\* ------------------------------------------------------------------------

\* The Tempo events a tick dispatches, <<track, index>> (1-based): those
\* between a track's cursor before the tick and its cursor after the advance.
TempoDispatched(mf) ==
    { je \in (1..Len(mf.tracks)) \X (1..4) :
        /\ je[2] <= Len(mf.tracks[je[1]])
        /\ mf.tracks[je[1]][je[2]].kind = "Tempo"
        /\ je[2] > mf.progress[je[1]].next_event
        /\ je[2] <= Advanced(mf).progress[je[1]].next_event }

\* The one dispatched last: tracks are advanced in order, events in order.
LastTempoDispatched(mf) ==
    CHOOSE je \in TempoDispatched(mf) :
       \A other \in TempoDispatched(mf) :
          other[1] < je[1] \/ (other[1] = je[1] /\ other[2] <= je[2])

\* C21: a tick that dispatches a Tempo(t) event leaves microseconds_per_tick
\* at t / ticks_per_beat, a tick that dispatches none leaves it unchanged,
\* and so does every call of set_paused, seek_to, set_loop_point and the
\* entry and return of update; each later tick is taken, in the same update
\* call or a later one, only while the timer exceeds the value then in
\* effect, and update returns only when it does not.
C21_TempoSetsTickLength ==
    [][ /\ (TickStep /\ TempoDispatched(File) # {})
              => LET je == LastTempoDispatched(File)
                 IN FileNext.microseconds_per_tick
                       = File.tracks[je[1]][je[2]].tempo \div File.ticks_per_beat
        /\ (TickStep /\ TempoDispatched(File) = {})
              => FileNext.microseconds_per_tick = File.microseconds_per_tick
        /\ TickStep => File.timer > File.microseconds_per_tick
        /\ (pc = "updating" /\ pc' = "idle")
              => /\ ~(File.timer > File.microseconds_per_tick)
                 /\ FileNext.microseconds_per_tick = File.microseconds_per_tick
        /\ ( /\ Loaded
             /\ \/ Calls("set_paused") \/ Calls("seek_to")
                \/ Calls("set_loop_point") \/ Calls("update") \/ Calls("from_bytes") )
              => FileNext.microseconds_per_tick = File.microseconds_per_tick ]_vars

\* The second Tempo event of a file with two ticks per beat has just been
\* dispatched: Tempo(2) has replaced the tick length 2 of Tempo(4) by 1.
C21_Witness ==
    /\ Loaded /\ pc = "updating"
    /\ File.ticks_per_beat = 2
    /\ File.progress[1].next_event = 3
    /\ File.tracks[1][3].kind = "Tempo"
    /\ File.progress[1].ticks_since_last_update = 0
    /\ File.microseconds_per_tick = 1

\* ------------------------------------------------------------------------
\* C22
\* ------------------------------------------------------------------------

\* Event e (1-based) of track j (1-based) has been dispatched.
Dispatched(mf, j, e) == mf.progress[j].next_event >= e

\* C22: in Parallel layout, with no seek, two events of different tracks
\* that have the same cumulative tick offset are dispatched in the same
\* tick: after every tick either both have been dispatched or neither,
\* also when only one of the two tracks begins with an event of delta 0.
C22_SameOffsetSameTick ==
    \A side \in DOMAIN runs :
       LET mf == runs[side].mf
       IN \A j \in 1..Len(mf.tracks) : \A j2 \in 1..Len(mf.tracks) :
             \A e \in 1..Len(mf.tracks[j]) : \A e2 \in 1..Len(mf.tracks[j2]) :
                (j # j2 /\ Offset(mf.tracks[j], e) = Offset(mf.tracks[j2], e2))
                   => (Dispatched(mf, j, e) <=> Dispatched(mf, j2, e2))

\* ------------------------------------------------------------------------
\* C23
\* ------------------------------------------------------------------------

\* C23: the accumulated timer is never negative: no tick subtracts more
\* than the timer held when the tick started, the first tick after load and
\* the ticks that dispatch a Tempo event included.
C23_TimerNeverNegative ==
    Loaded => File.timer >= 0

\* ------------------------------------------------------------------------
\* C24
\* ------------------------------------------------------------------------

====
